---- MODULE Spec2Model ----
(***************************************************************************)
(* cloudflare_scan: the URL builder (builder.py), the request body helper  *)
(* (helpers.py), the response wrapper (response.py) and the blocking and   *)
(* asyncio clients (client.py).                                            *)
(*                                                                         *)
(* Text is a sequence of tokens.  A token is either one character that     *)
(* some quoting rule treats specially (" ", "&", "=", "+", ";", "#", "%",  *)
(* "?") or an indivisible run of characters no rule touches                *)
(* ("example.com", "2024-01-02", "%26").  Python values carry their type   *)
(* in the field t.                                                         *)
(***************************************************************************)
EXTENDS Integers, Sequences, FiniteSets, TLC

VARIABLES
    self_builder,   \* SpecUrl: the UrlBuilder under test
    kwargs,         \* SpecUrl: the 14 keyword arguments of build_get_scan_url
    url_out,        \* SpecUrl: what build_get_scan_url returned or raised
    wrapper,        \* SpecResp: the CloudflareURLScanResponse under test
    accessed,       \* SpecResp: the accessor last read and what it gave
    body_args,      \* SpecBody: the arguments of create_request_body
    body_out,       \* SpecBody: the body it returned
    environ,        \* Spec: os.environ
    kind,           \* Spec: "Client" or "AsyncClient"
    ctor,           \* Spec: the arguments the constructor was called with
    client,         \* Spec: the client object, NotInUse before construction
    calls           \* Spec: the operation calls made on the client

urlVars == <<self_builder, kwargs, url_out>>

respVars == <<wrapper, accessed>>

bodyVars == <<body_args, body_out>>

clientVars == <<environ, kind, ctor, client, calls>>

vars ==
    <<self_builder, kwargs, url_out, wrapper, accessed, body_args, body_out,
      environ, kind, ctor, client, calls>>

---------------------------------------------------------------------------
(* Python values and outcomes *)

PyNone == [t |-> "None"]
PyStr(s) == [t |-> "str", s |-> s]
PyInt(n) == [t |-> "int", n |-> n]
PyBool(b) == [t |-> "bool", b |-> b]
PyDatetime(d) == [t |-> "datetime", d |-> d]

Returned(v) == [ok |-> TRUE, val |-> v]
Raised(e) == [ok |-> FALSE, exc |-> e]
Pending == [ok |-> FALSE, exc |-> "(not called)"]

\* a variable of a part of the program the specification at hand does not run
NotInUse == [t |-> "None"]

UrlIdle == self_builder = NotInUse /\ kwargs = NotInUse /\ url_out = NotInUse

RespIdle == wrapper = NotInUse /\ accessed = NotInUse

BodyIdle == body_args = NotInUse /\ body_out = NotInUse

ClientIdle ==
    /\ environ = NotInUse
    /\ kind = NotInUse
    /\ ctor = NotInUse
    /\ client = NotInUse
    /\ calls = NotInUse

\* bool(v) as the if statements of builder.py apply it
Truthy(v) ==
    CASE v.t = "None" -> FALSE
      [] v.t = "str" -> v.s # <<>>
      [] v.t = "int" -> v.n # 0
      [] v.t = "bool" -> v.b
      [] OTHER -> TRUE

RECURSIVE Digits(_)
Digits(n) ==
    IF n < 10 THEN <<(<<"0", "1", "2", "3", "4", "5", "6", "7", "8", "9">>)[n + 1]>>
    ELSE Digits(n \div 10) \o Digits(n % 10)

\* str(int): decimal, a leading "-" for a negative number
Decimal(n) == IF n < 0 THEN <<"-">> \o Digits(0 - n) ELSE Digits(n)

\* "{}".format(v) and f"{v}" for the values the clients hold
Format(v) ==
    CASE v.t = "None" -> <<"None">>
      [] v.t = "str" -> v.s
      [] v.t = "int" -> Decimal(v.n)
      [] v.t = "bool" -> IF v.b THEN <<"True">> ELSE <<"False">>
      [] OTHER -> <<"(object)">>

\* datetime.isoformat(): date, "T", time, the microseconds when not zero, the
\* UTC offset when the datetime is aware
isoformat(v) ==
    IF v.t # "datetime" THEN Raised("AttributeError")
    ELSE Returned(PyStr(
        <<v.d.date, "T", v.d.time>>
        \o (IF v.d.micro = "" THEN <<>> ELSE <<".", v.d.micro>>)
        \o (IF v.d.tzsign = "" THEN <<>> ELSE <<v.d.tzsign, v.d.tzoff>>)))

---------------------------------------------------------------------------
(* Text helpers *)

RECURSIVE Translate(_, _)
Translate(tbl, s) ==
    IF s = <<>> THEN <<>>
    ELSE (IF Head(s) \in DOMAIN tbl THEN tbl[Head(s)] ELSE <<Head(s)>>)
         \o Translate(tbl, Tail(s))

\* str.split(sep): the segments between the separators, at least one
RECURSIVE SplitOn(_, _)
SplitOn(s, sep) ==
    IF \A i \in 1..Len(s) : s[i] # sep THEN <<s>>
    ELSE LET i == CHOOSE k \in 1..Len(s) : s[k] = sep /\ \A j \in 1..(k - 1) : s[j] # sep
         IN <<SubSeq(s, 1, i - 1)>> \o SplitOn(SubSeq(s, i + 1, Len(s)), sep)

\* str.split(sep, 1)
SplitFirst(s, sep) ==
    IF \A i \in 1..Len(s) : s[i] # sep THEN <<s>>
    ELSE LET i == CHOOSE k \in 1..Len(s) : s[k] = sep /\ \A j \in 1..(k - 1) : s[j] # sep
         IN <<SubSeq(s, 1, i - 1), SubSeq(s, i + 1, Len(s))>>

RECURSIVE JoinWith(_, _)
JoinWith(parts, sep) ==
    IF parts = <<>> THEN <<>>
    ELSE IF Len(parts) = 1 THEN parts[1]
    ELSE parts[1] \o <<sep>> \o JoinWith(Tail(parts), sep)

---------------------------------------------------------------------------
(* yarl.URL as builder.py uses it: URL.build, with_query, human_repr *)

\* the quoter of a path given to URL.build: "/", "+", "@", ":", "&", "=", ";"
\* stay, the rest of the reserved characters are percent-encoded
PATH_QUOTER ==
    (" " :> <<"%20">>) @@ ("?" :> <<"%3F">>) @@ ("#" :> <<"%23">>) @@ ("%" :> <<"%25">>)

\* the quoter of a whole query string (URL.build(query_string=...)): the
\* separators "=", "&", "+", ";" are protected
QUERY_QUOTER ==
    (" " :> <<"+">>) @@ ("#" :> <<"%23">>) @@ ("%" :> <<"%25">>)

\* the quoter of one key or one value of a mapping given to with_query
QUERY_PART_QUOTER ==
    (" " :> <<"+">>) @@ ("+" :> <<"%2B">>) @@ ("&" :> <<"%26">>) @@ ("=" :> <<"%3D">>)
    @@ (";" :> <<"%3B">>) @@ ("#" :> <<"%23">>) @@ ("%" :> <<"%25">>)

\* decoding of a raw path (URL.path)
PATH_UNQUOTER ==
    ("%20" :> <<" ">>) @@ ("%3F" :> <<"?">>) @@ ("%23" :> <<"#">>) @@ ("%25" :> <<"%">>)

\* decoding of one key or value of a raw query string (URL.query)
QS_UNQUOTER ==
    ("+" :> <<" ">>) @@ ("%2B" :> <<"+">>) @@ ("%26" :> <<"&">>) @@ ("%3D" :> <<"=">>)
    @@ ("%3B" :> <<";">>) @@ ("%23" :> <<"#">>) @@ ("%25" :> <<"%">>)
    @@ ("%20" :> <<" ">>) @@ ("%3F" :> <<"?">>)

\* human_repr's quoting of what would make the printed URL ambiguous
HUMAN_QUOTE_PATH ==
    ("%" :> <<"%25">>) @@ ("#" :> <<"%23">>) @@ ("?" :> <<"%3F">>)

HUMAN_QUOTE_QUERY ==
    ("%" :> <<"%25">>) @@ ("#" :> <<"%23">>) @@ ("&" :> <<"%26">>) @@ ("+" :> <<"%2B">>)
    @@ (";" :> <<"%3B">>) @@ ("=" :> <<"%3D">>)

\* URL.build(scheme=, host=, path=, query_string=)
URL_build(scheme, host, path, query_string) ==
    [scheme |-> scheme, host |-> host,
     raw_path |-> Translate(PATH_QUOTER, path),
     raw_query_string |-> Translate(QUERY_QUOTER, query_string)]

\* the text with_query makes of one value: str as is, int in decimal, anything
\* else (bool included) is a TypeError
query_var(v) ==
    CASE v.t = "str" -> Returned(v.s)
      [] v.t = "int" -> Returned(Decimal(v.n))
      [] OTHER -> Raised("TypeError")

RECURSIVE query_seq_pairs(_)
query_seq_pairs(items) ==
    IF items = <<>> THEN <<>>
    ELSE <<Translate(QUERY_PART_QUOTER, <<items[1][1]>>) \o <<"=">>
           \o Translate(QUERY_PART_QUOTER, query_var(items[1][2]).val)>>
         \o query_seq_pairs(Tail(items))

\* URL.with_query(mapping): items is the mapping in insertion order, <<key, value>>
with_query(url, items) ==
    IF \E i \in 1..Len(items) : ~query_var(items[i][2]).ok THEN Raised("TypeError")
    ELSE Returned([url EXCEPT !.raw_query_string = JoinWith(query_seq_pairs(items), "&")])

\* parse_qsl(raw, keep_blank_values=True) then unquoting: the <<key, value>> pairs
RECURSIVE parse_segments(_)
parse_segments(segs) ==
    IF segs = <<>> THEN <<>>
    ELSE (IF segs[1] = <<>> THEN <<>>
          ELSE LET nv == SplitFirst(segs[1], "=")
               IN <<<<Translate(QS_UNQUOTER, nv[1]),
                      IF Len(nv) = 2 THEN Translate(QS_UNQUOTER, nv[2]) ELSE <<>>>>>>)
         \o parse_segments(Tail(segs))

URL_query(url) == parse_segments(SplitOn(url.raw_query_string, "&"))

RECURSIVE human_pairs(_)
human_pairs(pairs) ==
    IF pairs = <<>> THEN <<>>
    ELSE <<Translate(HUMAN_QUOTE_QUERY, pairs[1][1]) \o <<"=">>
           \o Translate(HUMAN_QUOTE_QUERY, pairs[1][2])>>
         \o human_pairs(Tail(pairs))

\* URL.human_repr(): the decoded URL as one text
human_repr(url) ==
    LET path == Translate(HUMAN_QUOTE_PATH, Translate(PATH_UNQUOTER, url.raw_path))
        query_string == JoinWith(human_pairs(URL_query(url)), "&")
    IN <<url.scheme, "://", url.host>> \o path
       \o (IF query_string = <<>> THEN <<>> ELSE <<"?">> \o query_string)

---------------------------------------------------------------------------
(* builder.py *)

\* UrlBuilder.__init__
UrlBuilder(cloudflare_account_id) ==
    [cloudflare_account_id |-> cloudflare_account_id,
     scheme |-> "https",
     host |-> "api.cloudflare.com",
     base_path |-> <<"/client/v4/accounts/", "{}", "/urlscanner/scan">>]

\* self.base_path.format(self.cloudflare_account_id)
base_path_format(self) ==
    Translate("{}" :> Format(self.cloudflare_account_id), self.base_path)

build_search_url(self, endpoint) ==
    human_repr(URL_build(self.scheme, self.host, base_path_format(self),
                         <<"page_hostname", "=">> \o Format(endpoint)))

build_scan_url(self) ==
    human_repr(URL_build(self.scheme, self.host, base_path_format(self), <<>>))

build_get_screenshot_url(self, uuid, resolution) ==
    human_repr(URL_build(self.scheme, self.host,
                         base_path_format(self) \o <<"/">> \o Format(uuid) \o <<"/screenshot">>,
                         <<"resolution", "=">> \o Format(resolution)))

build_get_har_url(self, uuid) ==
    human_repr(URL_build(self.scheme, self.host,
                         base_path_format(self) \o <<"/">> \o Format(uuid) \o <<"/har">>,
                         <<>>))

\* the names build_get_scan_url takes
ArgNames ==
    {"account_scans", "date_end", "date_start", "hostname", "ip", "limit", "next_cursor",
     "page_hostname", "page_ip", "page_path", "page_url", "path", "uuid", "url"}

\* the params dict of build_get_scan_url, in its order: <<upstream key, argument>>
ParamKeys ==
    << <<"account_scans", "account_scans">>, <<"date_end", "date_end">>,
       <<"date_start", "date_start">>, <<"hostname", "hostname">>, <<"ip", "ip">>,
       <<"limit", "limit">>, <<"next_cursor", "next_cursor">>,
       <<"page_hostname", "page_hostname">>, <<"page_ip", "page_ip">>,
       <<"page_path", "page_path">>, <<"page_url", "page_url">>, <<"path", "path">>,
       <<"scanId", "uuid">>, <<"url", "url">> >>

\* the slip "if v" for "if v is not None"
is_truthy(v) == Truthy(v)

\* the condition of the filtered_params comprehension: v is not None
is_not_None(v) == v.t # "None"

\* {k: v for k, v in params.items() if v is not None}
RECURSIVE filtered_params(_)
filtered_params(params) ==
    IF params = <<>> THEN <<>>
    ELSE (IF is_not_None(params[1][2]) THEN <<params[1]>> ELSE <<>>) \o filtered_params(Tail(params))

build_get_scan_url(self, kw) ==
    LET date_end == IF Truthy(kw["date_end"]) THEN isoformat(kw["date_end"])
                    ELSE Returned(kw["date_end"])
        date_start == IF Truthy(kw["date_start"]) THEN isoformat(kw["date_start"])
                      ELSE Returned(kw["date_start"])
    IN IF ~date_end.ok THEN date_end
       ELSE IF ~date_start.ok THEN date_start
       ELSE LET arg == [kw EXCEPT !["date_end"] = date_end.val,
                                  !["date_start"] = date_start.val]
                params == [i \in 1..Len(ParamKeys) |-> <<ParamKeys[i][1], arg[ParamKeys[i][2]]>>]
                url == with_query(URL_build(self.scheme, self.host, base_path_format(self), <<>>),
                                  filtered_params(params))
            IN IF url.ok THEN Returned(human_repr(url.val)) ELSE url

---------------------------------------------------------------------------
(* SpecUrl: build_get_scan_url on every subset of its 14 filters *)

\* The values a supplied filter takes, one column per variant: a plain text,
\* the empty text, a text of reserved characters.
StrVariants ==
    << <<"example.com">>, <<>>, <<"a", "&", "b", "=", "c", " ", "d", "+", "%", "#", ";", "?">> >>

IntVariants == <<10, 0, 7>>

AccountScansVariants == <<PyBool(TRUE), PyStr(<<"true">>), PyBool(FALSE)>>

DateVariants ==
    << [date |-> "2024-01-02", time |-> "03:04:05", micro |-> "", tzsign |-> "", tzoff |-> ""],
       [date |-> "2024-01-02", time |-> "03:04:05", micro |-> "000123", tzsign |-> "+", tzoff |-> "00:00"],
       [date |-> "2023-12-31", time |-> "23:59:59", micro |-> "", tzsign |-> "-", tzoff |-> "05:00"] >>

Variants == 1..Len(StrVariants)

ArgValue(a, v) ==
    CASE a = "account_scans" -> AccountScansVariants[v]
      [] a = "limit" -> PyInt(IntVariants[v])
      [] a \in {"date_end", "date_start"} -> PyDatetime(DateVariants[v])
      [] OTHER -> PyStr(StrVariants[v])

KwargsOf(S, v) == [a \in ArgNames |-> IF a \in S THEN ArgValue(a, v) ELSE PyNone]

TestAccountId == <<"0123abc">>

UrlInit ==
    /\ self_builder = UrlBuilder(PyStr(TestAccountId))
    /\ \E S \in SUBSET ArgNames, v \in Variants : kwargs = KwargsOf(S, v)
    /\ url_out = Pending
    /\ RespIdle
    /\ BodyIdle
    /\ ClientIdle

CallBuildGetScanUrl ==
    /\ url_out = Pending
    /\ url_out' = build_get_scan_url(self_builder, kwargs)
    /\ UNCHANGED <<self_builder, kwargs, respVars, bodyVars, clientVars>>

UrlNext == CallBuildGetScanUrl

SpecUrl == UrlInit /\ [][UrlNext]_vars

\* What a reader of the returned text sees: the part after the first "?", cut
\* at "&", each piece cut at its first "="
QueryTextOf(u) ==
    IF \A i \in 1..Len(u) : u[i] # "?" THEN <<>>
    ELSE SplitFirst(u, "?")[2]

PairsOf(u) ==
    LET segs == IF QueryTextOf(u) = <<>> THEN <<>> ELSE SplitOn(QueryTextOf(u), "&")
    IN [i \in 1..Len(segs) |-> SplitFirst(segs[i], "=")]

KeysOf(u) == {PairsOf(u)[i][1] : i \in 1..Len(PairsOf(u))}

\* the upstream key of an argument: uuid goes out as scanId
UpstreamKey(a) == IF a = "uuid" THEN "scanId" ELSE a

Supplied(kw) == {a \in ArgNames : kw[a] # PyNone}

BaseUrlText ==
    <<"https", "://", "api.cloudflare.com", "/client/v4/accounts/", "0123abc", "/urlscanner/scan">>

\* C1: the query keys of the URL build_get_scan_url returns are exactly the
\* upstream keys of the filters supplied (uuid as scanId), one pair each: a
\* filter left None gives no key, a filter given "" is still there, and with
\* no filter the URL is the base path with no query string.
C1_QueryKeysAreTheSuppliedFilters ==
    url_out.ok =>
        /\ KeysOf(url_out.val) = {<<UpstreamKey(a)>> : a \in Supplied(kwargs)}
        /\ Len(PairsOf(url_out.val)) = Cardinality(Supplied(kwargs))
        /\ \A i \in 1..Len(PairsOf(url_out.val)) : Len(PairsOf(url_out.val)[i]) = 2
        /\ (Supplied(kwargs) = {} => url_out.val = BaseUrlText)

\* C1 witness: a URL was returned for a call with path="" supplied, uuid
\* supplied and hostname left out: path and scanId are keys, hostname is not.
C1_Witness ==
    /\ url_out.ok
    /\ kwargs["path"] = PyStr(<<>>)
    /\ kwargs["uuid"] = PyStr(<<>>)
    /\ kwargs["hostname"] = PyNone
    /\ <<"path">> \in KeysOf(url_out.val)
    /\ <<"scanId">> \in KeysOf(url_out.val)

\* the type Client.search declares for a filter
SearchAccepts(a, v) ==
    CASE a = "account_scans" -> v.t = "bool"
      [] a = "limit" -> v.t = "int"
      [] a \in {"date_end", "date_start"} -> v.t = "datetime"
      [] OTHER -> v.t = "str"

\* C2: for one filter alone, with a value of the type Client.search accepts
\* for it, the URL is produced without error and its query string holds
\* exactly one key-value pair, under the filter's upstream key.
C2_OneFilterOnePair ==
    \A a \in ArgNames :
        (/\ url_out # Pending
         /\ Supplied(kwargs) = {a}
         /\ SearchAccepts(a, kwargs[a]))
        => /\ url_out.ok
           /\ Len(PairsOf(url_out.val)) = 1
           /\ PairsOf(url_out.val)[1][1] = <<UpstreamKey(a)>>

---------------------------------------------------------------------------
(* SpecBuild: the four short methods of UrlBuilder, called in any order on
   one builder *)

TestAccountIds == {<<"0123abc">>, <<"f00d">>, <<"acct-3">>}

TestUuids == {<<"abc-123">>, <<"0190f3aa">>, <<"scan_7">>, <<"7">>}

\* resolutions: the three the upstream knows, one it does not, the empty text,
\* and texts holding characters a query string gives a meaning to
TestScreenshotResolutions ==
    {<<"desktop">>, <<"mobile">>, <<"tablet">>, <<"huge">>, <<>>,
     <<"a", " ", "b">>, <<"a", "+", "b">>, <<"mobile", "&", "x", "=", "1">>}

TestEndpoints == {<<"example.com">>, <<>>, <<"a", "&", "b">>}

BuildInit ==
    /\ \E id \in TestAccountIds : self_builder = UrlBuilder(PyStr(id))
    /\ kwargs = NotInUse
    /\ url_out = Pending
    /\ RespIdle
    /\ BodyIdle
    /\ ClientIdle

\* one call of a builder method: kwargs keeps the method and its arguments,
\* url_out what it returned
CallBuilder(method, uuid, resolution, endpoint, text) ==
    /\ kwargs' = [method |-> method, uuid |-> uuid, resolution |-> resolution,
                  endpoint |-> endpoint]
    /\ url_out' = Returned(text)
    /\ UNCHANGED <<self_builder, respVars, bodyVars, clientVars>>

CallBuildSearchUrl ==
    \E e \in TestEndpoints :
        CallBuilder("build_search_url", PyNone, PyNone, PyStr(e),
                    build_search_url(self_builder, PyStr(e)))

CallBuildScanUrl ==
    CallBuilder("build_scan_url", PyNone, PyNone, PyNone, build_scan_url(self_builder))

CallBuildGetScreenshotUrl ==
    \E u \in TestUuids, r \in TestScreenshotResolutions :
        CallBuilder("build_get_screenshot_url", PyStr(u), PyStr(r), PyNone,
                    build_get_screenshot_url(self_builder, PyStr(u), PyStr(r)))

CallBuildGetHarUrl ==
    \E u \in TestUuids :
        CallBuilder("build_get_har_url", PyStr(u), PyNone, PyNone,
                    build_get_har_url(self_builder, PyStr(u)))

BuildNext ==
    \/ CallBuildSearchUrl
    \/ CallBuildScanUrl
    \/ CallBuildGetScreenshotUrl
    \/ CallBuildGetHarUrl

SpecBuild == BuildInit /\ [][BuildNext]_vars

\* the returned text up to its first "?", and whether it has one
BeforeQuery(u) == SplitFirst(u, "?")[1]

HasQuery(u) == \E i \in 1..Len(u) : u[i] = "?"

\* scheme, host and path as the claim gives them for a method and its scanId
ExpectedUpToPath(account_id, k) ==
    <<"https", "://", "api.cloudflare.com", "/client/v4/accounts/">> \o account_id
    \o <<"/urlscanner/scan">>
    \o (CASE k.method = "build_get_screenshot_url" -> <<"/">> \o k.uuid.s \o <<"/screenshot">>
           [] k.method = "build_get_har_url" -> <<"/">> \o k.uuid.s \o <<"/har">>
           [] OTHER -> <<>>)

\* C11: every URL a UrlBuilder method returns is https://api.cloudflare.com
\* followed by /client/v4/accounts/{accountId}/urlscanner/scan, and by
\* /{scanId}/screenshot or /{scanId}/har for the two methods that take a scan
\* id; build_scan_url and build_get_har_url return it with no query string,
\* and build_get_screenshot_url with exactly the query resolution={resolution},
\* the resolution being the text it was given.
C11_FixedOriginAndResolutionQuery ==
    kwargs # NotInUse =>
        /\ url_out.ok
        /\ BeforeQuery(url_out.val)
             = ExpectedUpToPath(self_builder.cloudflare_account_id.s, kwargs)
        /\ kwargs.method \in {"build_scan_url", "build_get_har_url"} =>
             ~HasQuery(url_out.val)
        /\ kwargs.method = "build_get_screenshot_url" =>
             /\ HasQuery(url_out.val)
             /\ QueryTextOf(url_out.val) = <<"resolution", "=">> \o kwargs.resolution.s

---------------------------------------------------------------------------
(* response.py: CloudflareURLScanResponse over an httpx.Response *)

\* Parsed JSON, as json.loads gives it
JNull == [j |-> "null"]
JBool(b) == [j |-> "bool", b |-> b]
JStr(s) == [j |-> "string", s |-> s]
JNum(n) == [j |-> "number", n |-> n]
JArr(items) == [j |-> "array", items |-> items]
JObj(members) == [j |-> "object", members |-> members]

\* An httpx.Response: its status and its body, which either is a JSON document
\* (held as the value it parses to) or is not one
HttpResponse(status_code, is_json, value) ==
    [status_code |-> status_code, is_json |-> is_json, value |-> value]

\* httpx.Response.json(): json.loads of the body
Response_json(data) ==
    IF data.is_json THEN Returned(data.value) ELSE Raised("JSONDecodeError")

\* d[key] in place of d.get(key, default)
dict_getitem(d, key, default) ==
    IF d.j # "object" THEN Raised("TypeError")
    ELSE IF key \in DOMAIN d.members THEN Returned(d.members[key]) ELSE Raised("KeyError")

\* d.get(key, default): only a dict has get
dict_get(d, key, default) ==
    IF d.j # "object" THEN Raised("AttributeError")
    ELSE Returned(IF key \in DOMAIN d.members THEN d.members[key] ELSE default)

\* CloudflareURLScanResponse.__init__
CloudflareURLScanResponse(response) == [data |-> response]

json(self) == Response_json(self.data)

status_code(self) == Returned(JNum(self.data.status_code))

\* self.json.get(key, default)
json_get(self, key, default) ==
    IF json(self).ok THEN dict_get(json(self).val, key, default) ELSE json(self)

errors(self) == json_get(self, "errors", JArr(<<>>))

messages(self) == json_get(self, "messages", JArr(<<>>))

result(self) == json_get(self, "result", JObj(<<>>))

uuid(self) ==
    IF ~result(self).ok THEN result(self)
    ELSE LET inner == dict_get(result(self).val, "result", JObj(<<>>))
         IN IF ~inner.ok THEN inner ELSE dict_get(inner.val, "uuid", JStr(""))

success(self) == json_get(self, "success", JBool(FALSE))

tasks(self) ==
    LET r == json_get(self, "result", JObj(<<>>))
    IN IF ~r.ok THEN r ELSE dict_get(r.val, "tasks", JArr(<<>>))

---------------------------------------------------------------------------
(* SpecResp: every accessor on every body shape *)

\* an object from a set of <<key, value>> pairs with distinct keys
ObjOf(pairs) ==
    JObj([k \in {p[1] : p \in pairs} |-> (CHOOSE p \in pairs : p[1] = k)[2]])

Opt(key, values) == {{}} \cup {{<<key, v>>} : v \in values}

InnerResults ==
    {JNull, JObj(<<>>), ObjOf({<<"uuid", JStr("xyz")>>})}

ResultValues ==
    {JNull}
    \cup {ObjOf(a \cup b) : a \in Opt("result", InnerResults),
                            b \in Opt("tasks", {JArr(<<JStr("dns"), JStr("har")>>)})}

ObjectBodies ==
    {ObjOf(a \cup b \cup c \cup d) :
        a \in Opt("success", {JBool(TRUE), JBool(FALSE)}),
        b \in Opt("errors", {JArr(<<>>), JArr(<<JStr("rate limited")>>)}),
        c \in Opt("messages", {JArr(<<JObj("message" :> JStr("queued"))>>)}),
        d \in Opt("result", ResultValues)}

NonObjectBodies == {JNull, JArr(<<>>), JStr("ok"), JNum(0)}

Statuses == {200, 429}

TestResponses ==
    {HttpResponse(st, TRUE, v) : st \in Statuses, v \in ObjectBodies \cup NonObjectBodies}
    \cup {HttpResponse(st, FALSE, JNull) : st \in Statuses}

RespInit ==
    /\ \E r \in TestResponses : wrapper = CloudflareURLScanResponse(r)
    /\ accessed = NotInUse
    /\ UrlIdle
    /\ BodyIdle
    /\ ClientIdle

Read(name, out) ==
    /\ accessed' = [name |-> name, out |-> out]
    /\ UNCHANGED <<wrapper, urlVars, bodyVars, clientVars>>

ReadJson == Read("json", json(wrapper))

ReadStatusCode == Read("status_code", status_code(wrapper))

ReadErrors == Read("errors", errors(wrapper))

ReadMessages == Read("messages", messages(wrapper))

ReadResult == Read("result", result(wrapper))

ReadUuid == Read("uuid", uuid(wrapper))

ReadSuccess == Read("success", success(wrapper))

ReadTasks == Read("tasks", tasks(wrapper))

RespNext ==
    \/ ReadJson
    \/ ReadStatusCode
    \/ ReadErrors
    \/ ReadMessages
    \/ ReadResult
    \/ ReadUuid
    \/ ReadSuccess
    \/ ReadTasks

SpecResp == RespInit /\ [][RespNext]_vars

BodyOf(w) == w.data.value

\* the body is an object whose result, and result.result, are objects when present
WellFormed(w) ==
    /\ w.data.is_json
    /\ BodyOf(w).j = "object"
    /\ "result" \in DOMAIN BodyOf(w).members =>
        /\ BodyOf(w).members["result"].j = "object"
        /\ "result" \in DOMAIN BodyOf(w).members["result"].members =>
            BodyOf(w).members["result"].members["result"].j = "object"

RECURSIVE PathPresent(_, _)
PathPresent(v, path) ==
    \/ path = <<>>
    \/ /\ v.j = "object"
       /\ Head(path) \in DOMAIN v.members
       /\ PathPresent(v.members[Head(path)], Tail(path))

RECURSIVE ValueAt(_, _)
ValueAt(v, path) ==
    IF path = <<>> THEN v ELSE ValueAt(v.members[Head(path)], Tail(path))

AccessorPath ==
    ("success" :> <<"success">>) @@ ("errors" :> <<"errors">>)
    @@ ("messages" :> <<"messages">>) @@ ("result" :> <<"result">>)
    @@ ("uuid" :> <<"result", "result", "uuid">>) @@ ("tasks" :> <<"result", "tasks">>)

AccessorDefault ==
    ("success" :> JBool(FALSE)) @@ ("errors" :> JArr(<<>>))
    @@ ("messages" :> JArr(<<>>)) @@ ("result" :> JObj(<<>>))
    @@ ("uuid" :> JStr("")) @@ ("tasks" :> JArr(<<>>))

HasRead(name) == accessed # NotInUse /\ accessed.name = name

\* C5: on a body that is not valid JSON, success returns false without
\* raising, and json raises the parse error.
C5_SuccessSwallowsParseError ==
    (accessed # NotInUse /\ ~wrapper.data.is_json) =>
        /\ accessed.name = "success" => accessed.out = Returned(JBool(FALSE))
        /\ accessed.name = "json" => accessed.out = Raised("JSONDecodeError")

\* C6: on a JSON object body, whichever of success, errors, messages, result,
\* result.result, result.result.uuid and result.tasks are absent, each
\* defaulted accessor returns the value at its path when the whole path is
\* there and its default otherwise, without raising: success false, errors
\* [], messages [], result {}, uuid "", tasks [].
C6_AccessorsDefault ==
    (/\ accessed # NotInUse
     /\ accessed.name \in DOMAIN AccessorPath
     /\ WellFormed(wrapper))
    => accessed.out =
         Returned(IF PathPresent(BodyOf(wrapper), AccessorPath[accessed.name])
                  THEN ValueAt(BodyOf(wrapper), AccessorPath[accessed.name])
                  ELSE AccessorDefault[accessed.name])

\* C6 witness: uuid was read on a body whose result is there but holds no
\* inner result, and gave "".
C6_Witness ==
    /\ HasRead("uuid")
    /\ WellFormed(wrapper)
    /\ PathPresent(BodyOf(wrapper), <<"result">>)
    /\ ~PathPresent(BodyOf(wrapper), <<"result", "result">>)
    /\ accessed.out = Returned(JStr(""))

\* C14: on a body that is valid JSON but not well-formed (the top-level value
\* is a list, a string, a number or null, or result or result.result is there
\* with a value that is not an object, such as null), each defaulted accessor
\* (success, errors, messages, result, uuid, tasks) returns without raising:
\* its default when its path cannot be followed, the value there otherwise.
C14_MalformedJsonStillDefaults ==
    (/\ accessed # NotInUse
     /\ accessed.name \in DOMAIN AccessorPath
     /\ wrapper.data.is_json
     /\ ~WellFormed(wrapper))
    => /\ accessed.out.ok
       /\ accessed.out =
            Returned(IF PathPresent(BodyOf(wrapper), AccessorPath[accessed.name])
                     THEN ValueAt(BodyOf(wrapper), AccessorPath[accessed.name])
                     ELSE AccessorDefault[accessed.name])

---------------------------------------------------------------------------
(* helpers.py *)

PyList(items) == [t |-> "list", items |-> items]
PyDict(members) == [t |-> "dict", members |-> members]

\* body[key] = value
setitem(body, key, value) ==
    PyDict([k \in DOMAIN body.members \cup {key} |->
                IF k = key THEN value ELSE body.members[k]])

\* the slip of assigning a field whether or not its argument was given
setitem_always(body, key, arg, value) == setitem(body, key, value)

\* if arg is not None: body[key] = value
setitem_if_not_None(body, key, arg, value) ==
    IF arg.t # "None" THEN setitem(body, key, value) ELSE body

create_request_body(url, screenshots_resolutions, custom_user_agent, visibility) ==
    LET body0 == setitem(PyDict(<<>>), "url", url)
        body1 == setitem_if_not_None(body0, "screenshotsResolutions",
                                     screenshots_resolutions, screenshots_resolutions)
        body2 == setitem_if_not_None(body1, "customHeaders", custom_user_agent,
                                     PyDict("user-agent" :> custom_user_agent))
    IN setitem_if_not_None(body2, "visibility", visibility, visibility)

---------------------------------------------------------------------------
(* SpecBody: create_request_body on every combination of its optionals *)

TestUrls == {PyStr(<<"https://example.com">>), PyStr(<<>>)}

TestResolutions ==
    {PyNone, PyList(<<>>), PyList(<<"desktop">>), PyList(<<"desktop", "mobile", "tablet">>)}

TestUserAgents == {PyNone, PyStr(<<>>), PyStr(<<"Mozilla/5.0">>)}

TestVisibilities == {PyNone, PyStr(<<"Public">>), PyStr(<<"Unlisted">>)}

BodyInit ==
    /\ \E u \in TestUrls, sr \in TestResolutions, ua \in TestUserAgents,
          vis \in TestVisibilities :
          body_args = [url |-> u, screenshots_resolutions |-> sr,
                       custom_user_agent |-> ua, visibility |-> vis]
    /\ body_out = NotInUse
    /\ UrlIdle
    /\ RespIdle
    /\ ClientIdle

CallCreateRequestBody ==
    /\ body_out = NotInUse
    /\ body_out' = create_request_body(body_args.url, body_args.screenshots_resolutions,
                                       body_args.custom_user_agent, body_args.visibility)
    /\ UNCHANGED <<body_args, urlVars, respVars, clientVars>>

BodyNext == CallCreateRequestBody

SpecBody == BodyInit /\ [][BodyNext]_vars

\* the body keys the optional arguments go out under
BodyKeyOf ==
    ("screenshots_resolutions" :> "screenshotsResolutions")
    @@ ("custom_user_agent" :> "customHeaders") @@ ("visibility" :> "visibility")

SuppliedOptionals(args) == {a \in DOMAIN BodyKeyOf : args[a] # PyNone}

\* C7: create_request_body returns an object whose keys are url plus exactly
\* screenshotsResolutions, customHeaders and visibility for the optional
\* arguments supplied; no value is null for an argument left out, the user
\* agent appears only as customHeaders["user-agent"], and with no optional
\* supplied the only key is url.
C7_BodyHoldsOnlySuppliedFields ==
    body_out # NotInUse =>
        /\ DOMAIN body_out.members
             = {"url"} \cup {BodyKeyOf[a] : a \in SuppliedOptionals(body_args)}
        /\ body_out.members["url"] = body_args.url
        /\ \A a \in SuppliedOptionals(body_args) :
             body_out.members[BodyKeyOf[a]] # PyNone
        /\ "custom_user_agent" \in SuppliedOptionals(body_args) =>
             body_out.members["customHeaders"]
               = PyDict("user-agent" :> body_args.custom_user_agent)
        /\ "screenshots_resolutions" \in SuppliedOptionals(body_args) =>
             body_out.members["screenshotsResolutions"] = body_args.screenshots_resolutions
        /\ "visibility" \in SuppliedOptionals(body_args) =>
             body_out.members["visibility"] = body_args.visibility
        /\ SuppliedOptionals(body_args) = {} => DOMAIN body_out.members = {"url"}

\* C7 witness: a body was built with a user agent supplied and the two other
\* optionals left out.
C7_Witness ==
    /\ body_out # NotInUse
    /\ SuppliedOptionals(body_args) = {"custom_user_agent"}
    /\ DOMAIN body_out.members = {"url", "customHeaders"}

---------------------------------------------------------------------------
(* client.py: Client and AsyncClient *)

\* os.getenv(name): None when the variable is not set
getenv(env, name) == env[name]

\* The two statements that set an identity attribute in __init__:
\*     if arg is None: self.attr = os.getenv(NAME)
\*     self.attr = arg
init_attribute(arg, env_value) ==
    LET after_if == IF arg = PyNone THEN env_value ELSE PyNone
        after_assignment == arg
    IN after_assignment

\* httpx.Client(timeout=...) / httpx.AsyncClient(timeout=...): an open pool
httpx_client(timeout) == [timeout |-> timeout, is_closed |-> FALSE]

\* Client.__init__ and AsyncClient.__init__ (the same statements)
Client__init__(env, cloudflare_api_key, cloudflare_account_id, timeout) ==
    LET account_id == init_attribute(cloudflare_account_id,
                                     getenv(env, "CLOUDFLARE_ACCOUNT_ID"))
    IN [cloudflare_api_key |-> init_attribute(cloudflare_api_key,
                                              getenv(env, "CLOUDFLARE_API_KEY")),
        cloudflare_account_id |-> account_id,
        _timeout |-> timeout,
        _http_client |-> httpx_client(timeout),
        _url_builder |-> UrlBuilder(account_id)]

_build_headers(self) ==
    ("Content-Type" :> <<"application/json">>)
    @@ ("Authorization" :> <<"Bearer ">> \o Format(self.cloudflare_api_key))

\* the request _http hands to self._http_client.request (headers is never
\* passed by the operations, so it is always built here)
_http(self, method, url, data) ==
    [method |-> method, url |-> url, headers |-> _build_headers(self), json |-> data]

\* httpx raising for an error status before the caller sees the response
http_raise_for_status(response) ==
    IF response.status_code >= 400 THEN Raised("HTTPStatusError")
    ELSE Returned(CloudflareURLScanResponse(response))

\* the return statement of every operation: wrap what _http returned
operation_return(response) == Returned(CloudflareURLScanResponse(response))

\* a builder method that keeps what it appended in self.base_path
url_builder_appending(self, op) ==
    IF op = "get_har" THEN [self EXCEPT !.base_path = @ \o <<"/har">>] ELSE self

\* The UrlBuilder after one of its build_* methods ran for operation op: the
\* methods only read self and keep their URL in a local
url_builder_after(self, op) == self

\* The request each operation prepares, or what it raises before any request
scan(self, a) ==
    Returned(_http(self, "POST", build_scan_url(self._url_builder),
                   create_request_body(a.url, a.screenshots_resolutions,
                                       a.custom_user_agent, a.visibility)))

get_scan(self, a) ==
    LET url == build_get_scan_url(self._url_builder,
                                  [n \in ArgNames |-> IF n = "uuid" THEN a.uuid ELSE PyNone])
    IN IF url.ok THEN Returned(_http(self, "GET", url.val, PyNone)) ELSE url

get_screen_shots(self, a) ==
    Returned(_http(self, "GET",
                   build_get_screenshot_url(self._url_builder, a.uuid, a.resolution),
                   PyNone))

get_har(self, a) ==
    Returned(_http(self, "GET", build_get_har_url(self._url_builder, a.uuid), PyNone))

\* search(scanId=...) passes scanId as uuid, the rest under their own names
search(self, a) ==
    LET url == build_get_scan_url(self._url_builder,
                                  [n \in ArgNames |-> IF n = "uuid" THEN a["scanId"] ELSE a[n]])
    IN IF url.ok THEN Returned(_http(self, "GET", url.val, PyNone)) ELSE url

\* AsyncClient (client.py 251-488), method by method from its own source

\* a header naming another authorization scheme
build_headers_token(self) ==
    ("Content-Type" :> <<"application/json">>)
    @@ ("Authorization" :> <<"Token ">> \o Format(self.cloudflare_api_key))

AsyncClient_build_headers(self) ==
    ("Content-Type" :> <<"application/json">>)
    @@ ("Authorization" :> <<"Bearer ">> \o Format(self.cloudflare_api_key))

\* the request AsyncClient._http awaits self._http_client.request with
AsyncClient_http(self, method, url, data) ==
    [method |-> method, url |-> url, headers |-> AsyncClient_build_headers(self),
     json |-> data]

AsyncClient_operation_return(response) == Returned(CloudflareURLScanResponse(response))

AsyncClient_scan(self, a) ==
    Returned(AsyncClient_http(self, "POST", build_scan_url(self._url_builder),
                              create_request_body(a.url, a.screenshots_resolutions,
                                                  a.custom_user_agent, a.visibility)))

AsyncClient_get_scan(self, a) ==
    LET url == build_get_scan_url(self._url_builder,
                                  [n \in ArgNames |-> IF n = "uuid" THEN a.uuid ELSE PyNone])
    IN IF url.ok THEN Returned(AsyncClient_http(self, "GET", url.val, PyNone)) ELSE url

AsyncClient_get_screen_shots(self, a) ==
    Returned(AsyncClient_http(self, "GET",
                              build_get_screenshot_url(self._url_builder, a.uuid, a.resolution),
                              PyNone))

AsyncClient_get_har(self, a) ==
    Returned(AsyncClient_http(self, "GET", build_get_har_url(self._url_builder, a.uuid),
                              PyNone))

AsyncClient_search(self, a) ==
    LET url == build_get_scan_url(self._url_builder,
                                  [n \in ArgNames |-> IF n = "uuid" THEN a["scanId"] ELSE a[n]])
    IN IF url.ok THEN Returned(AsyncClient_http(self, "GET", url.val, PyNone)) ELSE url

\* the request operation op of a client of kind k prepares for arguments a
Prepared(k, self, op, a) ==
    IF k = "Client"
    THEN CASE op = "scan" -> scan(self, a)
           [] op = "get_scan" -> get_scan(self, a)
           [] op = "get_screen_shots" -> get_screen_shots(self, a)
           [] op = "get_har" -> get_har(self, a)
           [] op = "search" -> search(self, a)
    ELSE CASE op = "scan" -> AsyncClient_scan(self, a)
           [] op = "get_scan" -> AsyncClient_get_scan(self, a)
           [] op = "get_screen_shots" -> AsyncClient_get_screen_shots(self, a)
           [] op = "get_har" -> AsyncClient_get_har(self, a)
           [] op = "search" -> AsyncClient_search(self, a)

\* what the operation of a client of kind k returns for the transport's response
Wrapped(k, response) ==
    IF k = "Client" THEN operation_return(response)
    ELSE AsyncClient_operation_return(response)

---------------------------------------------------------------------------
(* Spec: a client is constructed, operations are called on it, the transport
   answers or fails, an AsyncClient may be closed *)

MaxCalls == 2

CallIds == 1..MaxCalls

DefaultTimeout == 60

EnvKey == PyStr(<<"env-key">>)
EnvAccount == PyStr(<<"env-account">>)
ArgKey == PyStr(<<"arg-key">>)
ArgAccount == PyStr(<<"arg-account">>)

Environs ==
    {("CLOUDFLARE_API_KEY" :> k) @@ ("CLOUDFLARE_ACCOUNT_ID" :> a) :
        k \in {PyNone, EnvKey}, a \in {PyNone, EnvAccount}}

SearchNames == (ArgNames \ {"uuid"}) \cup {"scanId"}

SearchArgs(given) == [n \in SearchNames |-> IF n \in DOMAIN given THEN given[n] ELSE PyNone]

TestScanId == PyStr(<<"abc-123">>)

ScanArgs ==
    {[url |-> PyStr(<<"https://example.com">>), screenshots_resolutions |-> PyNone,
      custom_user_agent |-> PyNone, visibility |-> PyNone],
     [url |-> PyStr(<<"https://example.com">>),
      screenshots_resolutions |-> PyList(<<"desktop", "mobile">>),
      custom_user_agent |-> PyStr(<<"Mozilla/5.0">>), visibility |-> PyStr(<<"Unlisted">>)]}

SearchArgSets ==
    {SearchArgs("page_hostname" :> PyStr(<<"example.com">>)),
     SearchArgs("scanId" :> TestScanId),
     SearchArgs("account_scans" :> PyBool(TRUE))}

\* what the transport may answer: a success, an upstream rejection, a gateway's
\* error page
OkBody ==
    ObjOf({<<"success", JBool(TRUE)>>,
           <<"result", ObjOf({<<"result", ObjOf({<<"uuid", JStr("xyz")>>})>>})>>})

RejectionBody ==
    ObjOf({<<"success", JBool(FALSE)>>, <<"errors", JArr(<<JStr("rate limited")>>)>>})

TransportResponses ==
    {HttpResponse(200, TRUE, OkBody), HttpResponse(429, TRUE, RejectionBody),
     HttpResponse(502, FALSE, JNull)}

TransportErrors == {"ConnectError"}

NoResponse == [status_code |-> 0, is_json |-> FALSE, value |-> JNull]

\* A call: where it stands, its operation and arguments, how many times it
\* called self._http_client.request, the requests the pool took from it, the
\* error the transport raised ("" when none), the response, and its outcome
IdleCall ==
    [pc |-> "idle", op |-> "", args |-> PyNone, requests |-> 0, sent |-> <<>>,
     failure |-> "", response |-> NoResponse, out |-> Pending]

Init ==
    /\ environ \in Environs
    /\ kind \in {"Client", "AsyncClient"}
    /\ ctor = NotInUse
    /\ client = NotInUse
    /\ calls = [c \in CallIds |-> IdleCall]
    /\ UrlIdle
    /\ RespIdle
    /\ BodyIdle

Construct(cloudflare_api_key, cloudflare_account_id, timeout) ==
    /\ client = NotInUse
    /\ ctor' = [cloudflare_api_key |-> cloudflare_api_key,
                cloudflare_account_id |-> cloudflare_account_id, timeout |-> timeout]
    /\ client' = Client__init__(environ, cloudflare_api_key, cloudflare_account_id, timeout)
    /\ UNCHANGED <<environ, kind, calls, urlVars, respVars, bodyVars>>

\* A call of an operation up to the point where it waits for the transport:
\* the request is prepared and self._http_client.request is called with it
\* once (a closed pool raises RuntimeError there), or the call raises before
\* that.  A blocking Client runs one call at a time.  Calls are numbered in
\* the order they are made.
Invoke(c, op, args, prepared) ==
    /\ client # NotInUse
    /\ calls[c].pc = "idle"
    /\ \A d \in CallIds : d < c => calls[d].pc # "idle"
    /\ kind = "Client" => \A d \in CallIds : calls[d].pc # "awaiting"
    /\ calls' = [calls EXCEPT ![c] =
         IF ~prepared.ok
         THEN [pc |-> "raised", op |-> op, args |-> args, requests |-> 0, sent |-> <<>>,
               failure |-> "", response |-> NoResponse, out |-> prepared]
         ELSE IF client._http_client.is_closed
         THEN [pc |-> "raised", op |-> op, args |-> args, requests |-> 1, sent |-> <<>>,
               failure |-> "RuntimeError", response |-> NoResponse,
               out |-> Raised("RuntimeError")]
         ELSE [pc |-> "awaiting", op |-> op, args |-> args, requests |-> 1,
               sent |-> <<prepared.val>>, failure |-> "", response |-> NoResponse,
               out |-> Pending]]
    /\ client' = [client EXCEPT !._url_builder = url_builder_after(@, op)]
    /\ UNCHANGED <<environ, kind, ctor, urlVars, respVars, bodyVars>>

Scan(c) == \E a \in ScanArgs : Invoke(c, "scan", a, Prepared(kind, client, "scan", a))

GetScan(c) ==
    \E a \in {[uuid |-> TestScanId]} :
        Invoke(c, "get_scan", a, Prepared(kind, client, "get_scan", a))

GetScreenShots(c) ==
    \E a \in {[uuid |-> TestScanId, resolution |-> PyStr(<<"mobile">>)]} :
        Invoke(c, "get_screen_shots", a, Prepared(kind, client, "get_screen_shots", a))

GetHar(c) ==
    \E a \in {[uuid |-> TestScanId]} :
        Invoke(c, "get_har", a, Prepared(kind, client, "get_har", a))

Search(c) ==
    \E a \in SearchArgSets : Invoke(c, "search", a, Prepared(kind, client, "search", a))

\* the transport answers the request of call c; the operation wraps the
\* answer and returns
TransportRespond(c, response) ==
    /\ calls[c].pc = "awaiting"
    /\ calls' = [calls EXCEPT ![c].pc = IF Wrapped(kind, response).ok
                                        THEN "returned" ELSE "raised",
                              ![c].response = response,
                              ![c].out = Wrapped(kind, response)]
    /\ UNCHANGED <<environ, kind, ctor, client, urlVars, respVars, bodyVars>>

\* the transport fails the request of call c; the error leaves the operation
TransportFail(c, error) ==
    /\ calls[c].pc = "awaiting"
    /\ calls' = [calls EXCEPT ![c].pc = "raised", ![c].failure = error,
                              ![c].out = Raised(error)]
    /\ UNCHANGED <<environ, kind, ctor, client, urlVars, respVars, bodyVars>>

\* AsyncClient.close; Client has no such method
Close ==
    /\ client # NotInUse
    /\ kind = "AsyncClient"
    /\ ~client._http_client.is_closed
    /\ client' = [client EXCEPT !._http_client.is_closed = TRUE]
    /\ UNCHANGED <<environ, kind, ctor, calls, urlVars, respVars, bodyVars>>

Next ==
    \/ \E k \in {PyNone, ArgKey}, a \in {PyNone, ArgAccount} :
          Construct(k, a, DefaultTimeout)
    \/ \E c \in CallIds : Scan(c)
    \/ \E c \in CallIds : GetScan(c)
    \/ \E c \in CallIds : GetScreenShots(c)
    \/ \E c \in CallIds : GetHar(c)
    \/ \E c \in CallIds : Search(c)
    \/ \E c \in CallIds, r \in TransportResponses : TransportRespond(c, r)
    \/ \E c \in CallIds, e \in TransportErrors : TransportFail(c, e)
    \/ Close

Spec == Init /\ [][Next]_vars

\* the caller of an AsyncClient that can be closed does close it
FairSpec == Init /\ [][Next]_vars /\ WF_vars(Close)

---------------------------------------------------------------------------
(* Claims about the clients *)

Constructed == client # NotInUse

HasSent(c) == calls[c].sent # <<>>

\* C3: constructed without an explicit api key (account id) while
\* CLOUDFLARE_API_KEY (CLOUDFLARE_ACCOUNT_ID) is set, the client takes the
\* environment value, and every later request carries it: the account id in
\* the URL, the key in the Authorization header.
C3_EnvironmentFallback ==
    Constructed =>
        /\ (ctor.cloudflare_api_key = PyNone /\ environ["CLOUDFLARE_API_KEY"] # PyNone) =>
             /\ client.cloudflare_api_key = environ["CLOUDFLARE_API_KEY"]
             /\ \A c \in CallIds : HasSent(c) =>
                  calls[c].sent[1].headers["Authorization"]
                    = <<"Bearer ">> \o environ["CLOUDFLARE_API_KEY"].s
        /\ (ctor.cloudflare_account_id = PyNone /\ environ["CLOUDFLARE_ACCOUNT_ID"] # PyNone) =>
             /\ client.cloudflare_account_id = environ["CLOUDFLARE_ACCOUNT_ID"]
             /\ client._url_builder.cloudflare_account_id = environ["CLOUDFLARE_ACCOUNT_ID"]
             /\ \A c \in CallIds : HasSent(c) =>
                  SubSeq(calls[c].sent[1].url, 4, 5)
                    = <<"/client/v4/accounts/">> \o environ["CLOUDFLARE_ACCOUNT_ID"].s

\* the identity has no source: not passed to the constructor, not in the environment
IdentityMissing ==
    \/ ctor.cloudflare_api_key = PyNone /\ environ["CLOUDFLARE_API_KEY"] = PyNone
    \/ ctor.cloudflare_account_id = PyNone /\ environ["CLOUDFLARE_ACCOUNT_ID"] = PyNone

\* C4: a client whose account id or api key is missing never issues a
\* transport request: no URL is formatted with an absent account id and no
\* Authorization header with an absent key.
C4_NoRequestWithoutIdentity ==
    (Constructed /\ IdentityMissing) => \A c \in CallIds : ~HasSent(c)

\* the transport has answered call c
Answered(c) == calls[c].response # NoResponse

IsRejection(r) ==
    /\ r.is_json
    /\ r.value.j = "object"
    /\ "success" \in DOMAIN r.value.members
    /\ r.value.members["success"] = JBool(FALSE)
    /\ "errors" \in DOMAIN r.value.members

\* C8: whatever status the transport returns, non-2xx included, the operation
\* returns a CloudflareURLScanResponse wrapping that response unchanged: its
\* status_code is the transport's status and, for a rejection body, success is
\* false and errors is the body's errors list.  Nothing is raised.
C8_RejectionIsReturnedNotRaised ==
    \A c \in CallIds : Answered(c) =>
        /\ calls[c].pc = "returned"
        /\ calls[c].out.ok
        /\ calls[c].out.val.data = calls[c].response
        /\ status_code(calls[c].out.val) = Returned(JNum(calls[c].response.status_code))
        /\ IsRejection(calls[c].response) =>
             /\ success(calls[c].out.val) = Returned(JBool(FALSE))
             /\ errors(calls[c].out.val) = Returned(calls[c].response.value.members["errors"])

\* C8 witness: a get_har call was answered 429 with a rejection body and
\* returned a wrapper whose errors are the body's.
C8_Witness ==
    \E c \in CallIds :
        /\ calls[c].op = "get_har"
        /\ calls[c].pc = "returned"
        /\ calls[c].response.status_code = 429
        /\ errors(calls[c].out.val) = Returned(JArr(<<JStr("rate limited")>>))

\* C9: the pool a client acquires at construction is eventually released in
\* every execution.
C9_PoolEventuallyClosed ==
    Constructed ~> (Constructed /\ client._http_client.is_closed)

\* The request a call makes when it is the only call on a client constructed
\* with ctor, written out from the wire format
TextOrNone(v) == IF v = PyNone THEN <<"None">> ELSE v.s

AloneBase ==
    <<"https", "://", "api.cloudflare.com", "/client/v4/accounts/">>
    \o TextOrNone(ctor.cloudflare_account_id) \o <<"/urlscanner/scan">>

AloneUrl(op, a) ==
    CASE op = "scan" -> AloneBase
      [] op = "get_scan" -> AloneBase \o <<"?", "scanId", "=">> \o a.uuid.s
      [] op = "get_screen_shots" ->
           AloneBase \o <<"/">> \o a.uuid.s
           \o <<"/screenshot", "?", "resolution", "=">> \o a.resolution.s
      [] op = "get_har" -> AloneBase \o <<"/">> \o a.uuid.s \o <<"/har">>
      [] op = "search" ->
           IF a["scanId"] # PyNone THEN AloneBase \o <<"?", "scanId", "=">> \o a["scanId"].s
           ELSE AloneBase \o <<"?", "page_hostname", "=">> \o a["page_hostname"].s

AloneBody(op, a) ==
    IF op # "scan" THEN PyNone
    ELSE PyDict([k \in {"url"} \cup {BodyKeyOf[n] : n \in SuppliedOptionals(a)} |->
                    CASE k = "url" -> a.url
                      [] k = "screenshotsResolutions" -> a.screenshots_resolutions
                      [] k = "customHeaders" -> PyDict("user-agent" :> a.custom_user_agent)
                      [] k = "visibility" -> a.visibility])

AloneRequest(op, a) ==
    [method |-> IF op = "scan" THEN "POST" ELSE "GET",
     url |-> AloneUrl(op, a),
     headers |-> ("Content-Type" :> <<"application/json">>)
                 @@ ("Authorization" :> <<"Bearer ">> \o TextOrNone(ctor.cloudflare_api_key)),
     json |-> AloneBody(op, a)]

\* C10: calls of the five AsyncClient operations that overlap on one client
\* share no state: under every interleaving each call issues the one request
\* (method, URL, headers, body) it issues when run alone and returns the
\* wrapper of the response to its own request, and the client's api key,
\* account id, timeout and URL builder stay as constructed.
C10_ConcurrentCallsAreIndependent ==
    (kind = "AsyncClient" /\ Constructed) =>
        /\ client.cloudflare_api_key = ctor.cloudflare_api_key
        /\ client.cloudflare_account_id = ctor.cloudflare_account_id
        /\ client._timeout = ctor.timeout
        /\ client._url_builder = UrlBuilder(ctor.cloudflare_account_id)
        /\ \A c \in CallIds : HasSent(c) =>
             calls[c].sent = <<AloneRequest(calls[c].op, calls[c].args)>>
        /\ \A c \in CallIds : calls[c].pc = "returned" =>
             calls[c].out = Returned([data |-> calls[c].response])

\* C10 witness: on an AsyncClient, a scan is still waiting for the transport
\* while a search made after it has already returned.
C10_Witness ==
    /\ kind = "AsyncClient"
    /\ calls[1].pc = "awaiting"
    /\ calls[1].op = "scan"
    /\ calls[2].pc = "returned"
    /\ calls[2].op = "search"
    /\ calls[2].sent = <<AloneRequest("search", calls[2].args)>>

\* the transport call of call c failed
TransportFailed(c) == calls[c].failure # ""

\* a call whose transport call failed made that one call and no other, got no
\* response and no wrapper, and raised the transport's error as it was
FailureIsNotRetried(c) ==
    TransportFailed(c) =>
        /\ calls[c].requests = 1
        /\ Len(calls[c].sent) <= 1
        /\ calls[c].pc = "raised"
        /\ calls[c].response = NoResponse
        /\ calls[c].out = Raised(calls[c].failure)

\* C12: each call of a client operation issues exactly one transport request
\* and never a second one; when the transport call fails, no further request
\* is issued, no response wrapper is returned, and the caller gets the
\* transport's error unchanged.
C12_ExactlyOneRequestNoRetry ==
    \A c \in CallIds : calls[c].pc # "idle" =>
        /\ calls[c].requests = 1
        /\ Len(calls[c].sent) <= 1
        /\ FailureIsNotRetried(c)

---------------------------------------------------------------------------
(* SpecPair: a Client and an AsyncClient constructed with the same identity
   are given the same calls, one at a time, and the transport gives both the
   same response.  client holds the fields the two constructors set (the same
   for both), calls the call at hand. *)

IdlePair ==
    [op |-> "", args |-> PyNone, sync |-> Pending, async |-> Pending,
     response |-> NoResponse, sync_out |-> Pending, async_out |-> Pending]

PairInit ==
    /\ environ \in Environs
    /\ kind = "Client and AsyncClient"
    /\ ctor = NotInUse
    /\ client = NotInUse
    /\ calls = IdlePair
    /\ UrlIdle
    /\ RespIdle
    /\ BodyIdle

PairConstruct(cloudflare_api_key, cloudflare_account_id, timeout) ==
    /\ client = NotInUse
    /\ ctor' = [cloudflare_api_key |-> cloudflare_api_key,
                cloudflare_account_id |-> cloudflare_account_id, timeout |-> timeout]
    /\ client' = Client__init__(environ, cloudflare_api_key, cloudflare_account_id, timeout)
    /\ UNCHANGED <<environ, kind, calls, urlVars, respVars, bodyVars>>

\* the same operation with the same arguments on both clients, up to the
\* request each hands to its pool
PairInvoke(op, args) ==
    /\ client # NotInUse
    /\ calls' = [IdlePair EXCEPT !.op = op, !.args = args,
                                 !.sync = Prepared("Client", client, op, args),
                                 !.async = Prepared("AsyncClient", client, op, args)]
    /\ client' = [client EXCEPT !._url_builder = url_builder_after(@, op)]
    /\ UNCHANGED <<environ, kind, ctor, urlVars, respVars, bodyVars>>

PairScan == \E a \in ScanArgs : PairInvoke("scan", a)

PairGetScan == \E a \in {[uuid |-> TestScanId]} : PairInvoke("get_scan", a)

PairGetScreenShots ==
    \E a \in {[uuid |-> TestScanId, resolution |-> PyStr(<<"mobile">>)]} :
        PairInvoke("get_screen_shots", a)

PairGetHar == \E a \in {[uuid |-> TestScanId]} : PairInvoke("get_har", a)

PairSearch == \E a \in SearchArgSets : PairInvoke("search", a)

\* the transport answers both requests alike; each operation returns
PairRespond(response) ==
    /\ calls.sync.ok
    /\ calls.async.ok
    /\ calls.response = NoResponse
    /\ calls' = [calls EXCEPT !.response = response,
                              !.sync_out = Wrapped("Client", response),
                              !.async_out = Wrapped("AsyncClient", response)]
    /\ UNCHANGED <<environ, kind, ctor, client, urlVars, respVars, bodyVars>>

PairNext ==
    \/ \E k \in {PyNone, ArgKey}, a \in {PyNone, ArgAccount} :
          PairConstruct(k, a, DefaultTimeout)
    \/ PairScan
    \/ PairGetScan
    \/ PairGetScreenShots
    \/ PairGetHar
    \/ PairSearch
    \/ \E r \in TransportResponses : PairRespond(r)

SpecPair == PairInit /\ [][PairNext]_vars

\* the headers the claim names for a client holding api key k
BearerHeaders(k) ==
    ("Authorization" :> <<"Bearer ">> \o TextOrNone(k))
    @@ ("Content-Type" :> <<"application/json">>)

\* C13: for each of scan, get_scan, get_screen_shots, get_har and search and
\* the same identity and arguments, Client and AsyncClient issue the same
\* request: method POST for scan and GET otherwise, the same URL, the same
\* JSON body, and the headers Authorization: Bearer {apiKey} and
\* Content-Type: application/json; both return the response wrapped in a
\* CloudflareURLScanResponse; and get_scan(uuid) issues the URL that
\* search(scanId=uuid) issues.
C13_ClientAndAsyncClientAgree ==
    calls # IdlePair =>
        /\ calls.sync = calls.async
        /\ calls.sync.ok =>
             /\ calls.async.val.method = (IF calls.op = "scan" THEN "POST" ELSE "GET")
             /\ calls.async.val.headers = BearerHeaders(client.cloudflare_api_key)
             /\ calls.sync.val.headers = BearerHeaders(client.cloudflare_api_key)
             /\ (calls.async.val.json = PyNone) <=> (calls.op # "scan")
        /\ calls.op = "get_scan" =>
             \A k \in {"Client", "AsyncClient"} :
                 Prepared(k, client, "search",
                          SearchArgs("scanId" :> calls.args.uuid)).val.url
                   = calls.sync.val.url
        /\ calls.response # NoResponse =>
             /\ calls.sync_out = Returned([data |-> calls.response])
             /\ calls.async_out = Returned([data |-> calls.response])

\* C13 witness: get_scan(uuid) on both clients gave the same GET request for
\* .../urlscanner/scan?scanId={uuid}, and both returned the wrapper of the
\* 429 the transport answered.
C13_Witness ==
    /\ calls.op = "get_scan"
    /\ calls.sync.ok
    /\ calls.async = calls.sync
    /\ calls.async.val.method = "GET"
    /\ calls.async.val.url = AloneUrl("get_scan", calls.args)
    /\ calls.response.status_code = 429
    /\ calls.async_out = calls.sync_out
    /\ calls.async_out.ok

====
